---- MODULE Spec2Model ----
(***************************************************************************)
(* A model of cnvlib/samutil.py: the BAM utilities bam_total_reads,        *)
(* ensure_bam_index, ensure_bam_sorted and is_newer_than.                  *)
(*                                                                         *)
(* File names and text lines are sequences of one-character strings, so    *)
(* that the path arithmetic (bam_fname + '.bai', bam_fname[:-1] + 'i'),    *)
(* str.split, int() and string comparison are computed, not assumed.       *)
(* The filesystem is a function from paths to [kind, mtime]; pysam is      *)
(* the environment: pysam.index may write the index, write nothing, or     *)
(* raise.                                                                  *)
(***************************************************************************)
EXTENDS Integers, Sequences, FiniteSets, TLC

VARIABLES
    bam_fname,  \* the alignment file's path (argument of ensure_bam_index)
    fs,         \* the filesystem: path -> [kind, mtime]
    now,        \* the clock that stamps files written
    ncalls,     \* number of ensure_bam_index calls that have ended
    inflight,   \* what each caller's call in progress saw and did so far
    last,       \* the same for the call that ended most recently
    prev,       \* and for the call that ended before it
    touched,    \* the alignment file was rewritten since the last call began
    serial,     \* callers exclude each other (one call at a time)
    pc,         \* each caller's position in ensure_bam_index
    bai,        \* each caller's local bai_fname
    tmtime,     \* each caller's os.stat(target_fname).st_mtime
    rstatus,    \* how each caller's latest call ended
    nstarted,   \* calls begun so far
    nbuilds,    \* pysam.index invocations since the file last changed
    nwritten,   \* those of them that wrote the index
    rebuilds,   \* invocations made after one of them wrote a current index
    target_fname, orig_fname, \* SpecNewer: the arguments of is_newer_than
    newer,      \* SpecNewer: the call's outcome
    reads,      \* SpecSorted: the records of the BAM file, in file order
    by_name,    \* SpecSorted: argument by_name
    span,       \* SpecSorted: argument span
    spc,        \* SpecSorted: position in ensure_bam_sorted
    consumed,   \* SpecSorted: indices of the records taken from the reader
    last_read,  \* SpecSorted: local last_read (<<>> is None, else <<record>>)
    sorted,     \* SpecSorted: the returned value
    stats,      \* SpecReads: the index statistics pysam.idxstats prints
    lines,      \* SpecReads: what pysam.idxstats returned
    total       \* SpecReads: the call's outcome

fsVars    == <<bam_fname, fs, now>>
callVars  == <<ncalls, inflight, last, prev, touched>>
raceVars  == <<serial, pc, bai, tmtime, rstatus, nstarted, nbuilds, nwritten, rebuilds>>
newerVars == <<target_fname, orig_fname, newer>>
sortVars  == <<reads, by_name, span, spc, consumed, last_read, sorted>>
readsVars == <<stats, lines, total>>
vars == <<fsVars, callVars, raceVars, newerVars, sortVars, readsVars>>

----------------------------------------------------------------------------
(* Bounds of the model. *)

MaxTime  == 1   \* the clock runs over 0..MaxTime
MaxCalls == 2   \* calls of ensure_bam_index in one behaviour
MaxReads == 3   \* records in a BAM file
MaxSpan  == 2   \* span runs over 0..MaxSpan and the default
MaxLines == 2   \* lines of index statistics

----------------------------------------------------------------------------
(* The filesystem.  A path names nothing, a regular file or something else  *)
(* that can be stat'ed (a directory): os.path.isfile is true of regular     *)
(* files only, os.stat succeeds on whatever exists.                         *)

NoFile == [kind |-> "none", mtime |-> 0]

File(t) == [kind |-> "file", mtime |-> t]

Dir(t) == [kind |-> "dir", mtime |-> t]

\* os.path.isfile(p)
IsFile(f, p) == p \in DOMAIN f /\ f[p].kind = "file"

\* os.stat(p) succeeds
Exists(f, p) == p \in DOMAIN f /\ f[p].kind # "none"

\* bam_fname + '.bai'
BamBai(bam) == bam \o <<".", "b", "a", "i">>

\* bam_fname[:-1] + 'i'
BaiOnly(bam) == SubSeq(bam, 1, Len(bam) - 1) \o <<"i">>

\* The alignment files of the model, and the paths a call on one can touch.
BamNames == { <<"s", ".", "b", "a", "m">>, <<"x", ".", "b">> }

PathsOf(bam) == {bam, BamBai(bam), BaiOnly(bam)}

\* The comparison of line 83.
NotOlder(target_mtime, orig_mtime) == target_mtime >= orig_mtime

\* Variant of is_newer_than with > for >=: equal mtimes count as older.
IsNewerThanStrict(f, target, orig) ==
    IF ~IsFile(f, target) THEN [raised |-> FALSE, value |-> FALSE]
    ELSE IF ~Exists(f, orig) THEN [raised |-> TRUE, value |-> FALSE]
    ELSE [raised |-> FALSE, value |-> f[target].mtime > f[orig].mtime]

\* is_newer_than(target_fname, orig_fname) on a filesystem nobody changes
\* meanwhile: False unless target_fname is a regular file; then os.stat of
\* an orig_fname that does not exist raises OSError.
IsNewerThan(f, target, orig) ==
    IF ~IsFile(f, target) THEN [raised |-> FALSE, value |-> FALSE]
    ELSE IF ~Exists(f, orig) THEN [raised |-> TRUE, value |-> FALSE]
    ELSE [raised |-> FALSE, value |-> NotOlder(f[target].mtime, f[orig].mtime)]

\* pysam.index(bam_fname) at time t: what the build capability can do.
BuildOutcomes == {"written", "nothing", "raised"}

PysamIndex(f, bam, t, outcome) ==
    IF outcome = "written"
    THEN [p \in DOMAIN f \cup {BamBai(bam)} |->
             IF p = BamBai(bam) THEN File(t) ELSE f[p]]
    ELSE f

\* Variants of the candidate that look at one of the two names only.
CandidatePrimaryOnly(f, bam) == BamBai(bam)

CandidateFallbackOnly(f, bam) == BaiOnly(bam)

\* The candidate of lines 34-39.
Candidate(f, bam) ==
    IF IsFile(f, BamBai(bam)) THEN BamBai(bam) ELSE BaiOnly(bam)

\* The path held in bai_fname after line 43, when the index was rebuilt.
Rebuilt(bam, cand) == BamBai(bam)

\* The assert of lines 44-45.
AssertIsFile(f, p) == IsFile(f, p)

----------------------------------------------------------------------------
(* The variables a specification does not use keep these values.           *)

IdleFs ==
    /\ bam_fname = <<>>
    /\ fs = <<>>
    /\ now = 0

IdleCalls ==
    /\ serial = FALSE
    /\ pc = <<>>
    /\ bai = <<>>
    /\ tmtime = <<>>
    /\ rstatus = <<>>
    /\ inflight = <<>>
    /\ nstarted = 0
    /\ ncalls = 0
    /\ last = <<>>
    /\ prev = <<>>
    /\ touched = FALSE
    /\ nbuilds = 0
    /\ nwritten = 0
    /\ rebuilds = 0

IdleNewer ==
    /\ target_fname = <<>>
    /\ orig_fname = <<>>
    /\ newer = <<>>

IdleSorted ==
    /\ reads = <<>>
    /\ by_name = FALSE
    /\ span = 0
    /\ spc = "idle"
    /\ consumed = <<>>
    /\ last_read = <<>>
    /\ sorted = <<>>

IdleReads ==
    /\ stats = <<>>
    /\ lines = <<>>
    /\ total = <<>>

----------------------------------------------------------------------------
(* ensure_bam_index, one step per filesystem access: the isfile of line    *)
(* 34, the isfile and the two os.stat of is_newer_than, pysam.index, the   *)
(* isfile of the assert.  The clock, the owner of the alignment file and   *)
(* other callers can act between any two steps.  Nothing in the code makes *)
(* a caller wait for another; `serial` is the discipline of the callers    *)
(* themselves.  Spec has one call at a time, SpecRace either.              *)

Callers == {1, 2}

\* What is recorded of a call: the filesystem when it began (pre) and ended
\* (post), its candidate, whether it invoked pysam.index and what that did,
\* how it ended, whether the alignment file was rewritten between the call
\* before it and its beginning (touched) or while it ran (disturbed).
NoCall == [made |-> FALSE, pre |-> <<>>, post |-> <<>>, status |-> "",
           path |-> <<>>, cand |-> <<>>, builds |-> 0, logged |-> FALSE,
           outcome |-> "", touched |-> FALSE, disturbed |-> FALSE]

\* The alignment file exists (the caller may also have passed a directory);
\* an index path names nothing, a regular file that is stale or fresh, or a
\* directory, whose mtime no line reads.  A file may be stamped later than
\* the clock reads (os.utime, a skewed clock).
InitFs ==
    /\ bam_fname \in BamNames
    /\ now \in 0..(MaxTime - 1)
    /\ fs \in [PathsOf(bam_fname) ->
                 {NoFile} \cup {File(t) : t \in 0..MaxTime}
                          \cup {Dir(t) : t \in 0..MaxTime}]
    /\ fs[bam_fname].kind # "none"
    /\ \A p \in PathsOf(bam_fname) \ {bam_fname} :
          fs[p].kind = "dir" => fs[p].mtime = 0

InitCalls ==
    /\ InitFs
    /\ pc = [c \in Callers |-> "idle"]
    /\ bai = [c \in Callers |-> <<>>]
    /\ tmtime = [c \in Callers |-> 0]
    /\ rstatus = [c \in Callers |-> ""]
    /\ inflight = [c \in Callers |-> NoCall]
    /\ nstarted = 0
    /\ ncalls = 0
    /\ last = NoCall
    /\ prev = NoCall
    /\ touched = FALSE
    /\ nbuilds = 0
    /\ nwritten = 0
    /\ rebuilds = 0
    /\ IdleNewer
    /\ IdleSorted
    /\ IdleReads

Init ==
    /\ InitCalls
    /\ serial = TRUE

InitRace ==
    /\ InitCalls
    /\ serial \in BOOLEAN

callsRest == <<newerVars, sortVars, readsVars>>

counters == <<nbuilds, nwritten, rebuilds>>

\* The call of caller c ends with `status`, returning `path` if any.
Ends(c, status, path, f) ==
    /\ pc' = [pc EXCEPT ![c] = "idle"]
    /\ rstatus' = [rstatus EXCEPT ![c] = status]
    /\ last' = [inflight[c] EXCEPT !.made = TRUE, !.status = status,
                              !.path = path, !.post = f]
    /\ prev' = last
    /\ inflight' = [inflight EXCEPT ![c] = NoCall]
    /\ ncalls' = ncalls + 1

\* Lines 34-39: the call starts and picks its candidate.
Begin(c) ==
    /\ pc[c] = "idle"
    /\ nstarted < MaxCalls
    /\ serial => \A d \in Callers : pc[d] = "idle"
    /\ bai' = [bai EXCEPT ![c] = Candidate(fs, bam_fname)]
    /\ rstatus' = [rstatus EXCEPT ![c] = ""]
    /\ inflight' = [inflight EXCEPT ![c] = [NoCall EXCEPT
                                    !.pre = fs,
                                    !.cand = Candidate(fs, bam_fname),
                                    !.touched = touched]]
    /\ touched' = FALSE
    /\ pc' = [pc EXCEPT ![c] = "isfile"]
    /\ nstarted' = nstarted + 1
    /\ UNCHANGED <<fsVars, serial, tmtime, ncalls, last, prev, counters,
                   callsRest>>

\* Lines 40 and 81-82: is_newer_than tests that the candidate is a file.
CheckIsFile(c) ==
    /\ pc[c] = "isfile"
    /\ pc' = [pc EXCEPT ![c] = IF IsFile(fs, bai[c]) THEN "stat_target"
                                ELSE "build"]
    /\ UNCHANGED <<fsVars, serial, bai, tmtime, rstatus, inflight, nstarted,
                   ncalls, last, prev, touched, counters, callsRest>>

\* Line 83, left operand: os.stat(target_fname).st_mtime.
StatTarget(c) ==
    /\ pc[c] = "stat_target"
    /\ IF Exists(fs, bai[c])
       THEN /\ tmtime' = [tmtime EXCEPT ![c] = fs[bai[c]].mtime]
            /\ pc' = [pc EXCEPT ![c] = "stat_orig"]
            /\ UNCHANGED <<rstatus, inflight, ncalls, last, prev>>
       ELSE /\ Ends(c, "OSError", <<>>, fs)
            /\ UNCHANGED tmtime
    /\ UNCHANGED <<fsVars, serial, bai, nstarted, touched, counters,
                   callsRest>>

\* Line 83, right operand and comparison: os.stat(orig_fname).st_mtime.
StatOrig(c) ==
    /\ pc[c] = "stat_orig"
    /\ IF Exists(fs, bam_fname)
       THEN /\ pc' = [pc EXCEPT ![c] =
                        IF NotOlder(tmtime[c], fs[bam_fname].mtime)
                        THEN "assert" ELSE "build"]
            /\ UNCHANGED <<rstatus, inflight, ncalls, last, prev>>
       ELSE Ends(c, "OSError", <<>>, fs)
    /\ UNCHANGED <<fsVars, serial, bai, tmtime, nstarted, touched, counters,
                   callsRest>>

\* A build since the alignment file last changed wrote <file>.bai with an
\* mtime >= the alignment file's.  (The clock never runs back, so the latest
\* of those builds left the largest mtime.)
FreshlyBuilt ==
    /\ nwritten > 0
    /\ IsFile(fs, BamBai(bam_fname))
    /\ NotOlder(fs[BamBai(bam_fname)].mtime, fs[bam_fname].mtime)

\* Lines 41-43: the index is rebuilt.  No build can put a regular file
\* where a directory is.
Build(c) ==
    /\ pc[c] = "build"
    /\ \E outcome \in BuildOutcomes :
         /\ outcome = "written" =>
               (Exists(fs, BamBai(bam_fname)) => IsFile(fs, BamBai(bam_fname)))
         /\ fs' = PysamIndex(fs, bam_fname, now, outcome)
         /\ nwritten' = IF outcome = "written" THEN nwritten + 1 ELSE nwritten
         /\ IF outcome = "raised"
            THEN /\ pc' = [pc EXCEPT ![c] = "idle"]
                 /\ rstatus' = [rstatus EXCEPT ![c] = "IndexError"]
                 /\ last' = [inflight[c] EXCEPT !.made = TRUE, !.builds = 1,
                                           !.logged = TRUE,
                                           !.outcome = outcome,
                                           !.status = "IndexError",
                                           !.post = fs]
                 /\ prev' = last
                 /\ inflight' = [inflight EXCEPT ![c] = NoCall]
                 /\ ncalls' = ncalls + 1
                 /\ UNCHANGED bai
            ELSE /\ pc' = [pc EXCEPT ![c] = "assert"]
                 /\ bai' = [bai EXCEPT ![c] = Rebuilt(bam_fname, bai[c])]
                 /\ inflight' = [inflight EXCEPT ![c].builds = 1,
                                                 ![c].logged = TRUE,
                                                 ![c].outcome = outcome]
                 /\ UNCHANGED <<rstatus, ncalls, last, prev>>
    /\ nbuilds' = nbuilds + 1
    /\ rebuilds' = IF FreshlyBuilt THEN rebuilds + 1 ELSE rebuilds
    /\ UNCHANGED <<bam_fname, now, serial, tmtime, nstarted, touched,
                   callsRest>>

\* Lines 44-46: the assert and the return.
AssertReturn(c) ==
    /\ pc[c] = "assert"
    /\ IF AssertIsFile(fs, bai[c])
       THEN Ends(c, "returned", bai[c], fs)
       ELSE Ends(c, "AssertionError", <<>>, fs)
    /\ UNCHANGED <<fsVars, serial, bai, tmtime, nstarted, touched, counters,
                   callsRest>>

\* Time passes.
Tick ==
    /\ now < MaxTime
    /\ now' = now + 1
    /\ UNCHANGED <<bam_fname, fs, callVars, raceVars, callsRest>>

\* The alignment file is rewritten by its owner.
TouchBam ==
    /\ fs[bam_fname].mtime < now
    /\ fs' = [fs EXCEPT ![bam_fname].mtime = now]
    /\ touched' = TRUE
    /\ inflight' = [c \in Callers |->
                 IF pc[c] = "idle" THEN inflight[c]
                 ELSE [inflight[c] EXCEPT !.disturbed = TRUE]]
    /\ nbuilds' = 0
    /\ nwritten' = 0
    /\ rebuilds' = 0
    /\ UNCHANGED <<bam_fname, now, serial, pc, bai, tmtime, rstatus, nstarted,
                   ncalls, last, prev, callsRest>>

Next ==
    \/ \E c \in Callers : Begin(c)
    \/ \E c \in Callers : CheckIsFile(c)
    \/ \E c \in Callers : StatTarget(c)
    \/ \E c \in Callers : StatOrig(c)
    \/ \E c \in Callers : Build(c)
    \/ \E c \in Callers : AssertReturn(c)
    \/ Tick
    \/ TouchBam

Spec == Init /\ [][Next]_vars

SpecRace == InitRace /\ [][Next]_vars

----------------------------------------------------------------------------
(* Claims about ensure_bam_index with one call at a time, checked under    *)
(* Spec.  They are stated of calls during which the alignment file is not  *)
(* rewritten; between calls it may be.                                     *)

\* What an index file looked like to a call, read off its pre-state.
PreFresh(c, p) ==
    /\ IsFile(c.pre, p)
    /\ c.pre[p].mtime >= c.pre[bam_fname].mtime

\* C1: ensureIndex is idempotent: if a call returned a path and the
\* alignment file was not changed during it or afterwards, the next call
\* returns the same path, does not invoke the build capability and leaves
\* the filesystem as it was.
C1_Idempotent ==
    (/\ prev.made /\ prev.status = "returned" /\ ~prev.disturbed
     /\ last.made /\ ~last.touched /\ ~last.disturbed)
        => /\ last.status = "returned"
           /\ last.path = prev.path
           /\ last.builds = 0
           /\ last.post = last.pre

\* C2: whenever ensureIndex returns a path, whatever the build capability
\* did, the path names an existing index file whose modification time is >=
\* the alignment file's.
C2_ReturnedIndexIsCurrent ==
    (last.made /\ last.status = "returned" /\ ~last.disturbed)
        => /\ IsFile(last.post, last.path)
           /\ last.post[last.path].mtime >= last.post[bam_fname].mtime

\* C3: whenever ensureIndex triggers regeneration and the build step writes
\* nothing, the call fails with the assertion error (GenerationError) and
\* returns no path, also when a stale <file>.bai was there before the call.
C3_FailedBuildIsReported ==
    (last.made /\ last.builds = 1 /\ last.outcome = "nothing")
        => /\ last.status = "AssertionError"
           /\ last.path = <<>>

\* The candidate C4 describes, read off the call's pre-state.
C4_Candidate(c) ==
    IF IsFile(c.pre, BamBai(bam_fname)) THEN BamBai(bam_fname)
    ELSE SubSeq(bam_fname, 1, Len(bam_fname) - 1) \o <<"i">>

\* C4 as claimed: the candidate is <file>.bai when it exists and else the
\* path with its last character replaced by 'i'; a fresh candidate is
\* returned without a build; in every other case the build is invoked once
\* and <file>.bai is returned.
C4_AsClaimed ==
    (last.made /\ ~last.disturbed) =>
        /\ last.cand = C4_Candidate(last)
        /\ IF PreFresh(last, C4_Candidate(last))
           THEN /\ last.status = "returned"
                /\ last.path = C4_Candidate(last)
                /\ last.builds = 0
                /\ last.post = last.pre
           ELSE /\ last.builds = 1
                /\ last.status = "returned"
                /\ last.path = BamBai(bam_fname)

\* C4 (amended): as claimed for the candidate and the fast path; in every
\* other case the build is invoked exactly once, and the call returns
\* <file>.bai when the build completed and <file>.bai exists afterwards,
\* fails with the build's own error when the build raised, and fails with
\* the assertion error when the build completed and <file>.bai is absent.
C4_CandidateAndRebuild ==
    (last.made /\ ~last.disturbed) =>
        /\ last.cand = C4_Candidate(last)
        /\ IF PreFresh(last, C4_Candidate(last))
           THEN /\ last.status = "returned"
                /\ last.path = C4_Candidate(last)
                /\ last.builds = 0
                /\ last.post = last.pre
           ELSE /\ last.builds = 1
                /\ last.path = IF last.status = "returned"
                               THEN BamBai(bam_fname) ELSE <<>>
                /\ last.status =
                      IF last.outcome = "raised" THEN "IndexError"
                      ELSE IF IsFile(last.post, BamBai(bam_fname))
                           THEN "returned" ELSE "AssertionError"

\* C4's case: <file>.bai is stale, the fallback index is fresh, and the call
\* rebuilt and returned <file>.bai.
C4_Witness ==
    /\ last.made
    /\ ~last.disturbed
    /\ IsFile(last.pre, BamBai(bam_fname))
    /\ ~PreFresh(last, BamBai(bam_fname))
    /\ PreFresh(last, BaiOnly(bam_fname))
    /\ last.builds = 1
    /\ last.outcome = "written"
    /\ last.status = "returned"
    /\ last.path = BamBai(bam_fname)

----------------------------------------------------------------------------
(* The claim about concurrent callers, checked under SpecRace.             *)

\* C10 as claimed (its second half): with a single caller at a time the
\* build is invoked at most once until the alignment file changes.
C10_AsClaimed == serial => nbuilds <= 1

\* C10 (amended): with a single caller at a time, once a build has written
\* <file>.bai with an mtime >= the alignment file's, the build is not invoked
\* again until the alignment file changes; a build that wrote nothing, wrote
\* an index older than the file, or raised is repeated by later calls.
C10_NoRebuildAfterWrite == serial => rebuilds = 0

\* C10's race: without the discipline, two calls on the unchanged file have
\* both passed the freshness test before either build finished, and both
\* builds ran and wrote the index.
C10_Witness ==
    /\ ~serial
    /\ nstarted = 2
    /\ nwritten = 2
    /\ rebuilds = 1
    /\ pc[1] = "assert"
    /\ pc[2] = "assert"

----------------------------------------------------------------------------
(* SpecNewer: is_newer_than on any two paths, each naming nothing, a       *)
(* regular file or a directory.                                            *)

InitNewer ==
    /\ bam_fname \in BamNames
    /\ now = 0
    /\ fs \in [PathsOf(bam_fname) ->
                 {NoFile} \cup {File(t) : t \in 0..MaxTime}
                          \cup {Dir(t) : t \in 0..MaxTime}]
    /\ target_fname \in PathsOf(bam_fname)
    /\ orig_fname \in PathsOf(bam_fname)
    /\ newer = <<>>
    /\ IdleCalls
    /\ IdleSorted
    /\ IdleReads

\* One call of is_newer_than(target_fname, orig_fname).
CallIsNewerThan ==
    /\ newer = <<>>
    /\ newer' = <<IsNewerThan(fs, target_fname, orig_fname)>>
    /\ UNCHANGED <<fsVars, target_fname, orig_fname, callVars, raceVars,
                   sortVars, readsVars>>

NextNewer == CallIsNewerThan

SpecNewer == InitNewer /\ [][NextNewer]_vars

\* C8 as claimed: isNewerOrEqual returns false whenever the target does not
\* exist, whatever the state of the reference; when both exist it returns
\* true exactly when the target's mtime >= the reference's.
C8_AsClaimed ==
    newer # <<>> =>
        /\ ~Exists(fs, target_fname)
              => (~newer[1].raised /\ newer[1].value = FALSE)
        /\ (Exists(fs, target_fname) /\ Exists(fs, orig_fname))
              => /\ ~newer[1].raised
                 /\ newer[1].value
                      <=> (fs[target_fname].mtime >= fs[orig_fname].mtime)

\* C8 (amended): isNewerOrEqual returns false whenever the target is not an
\* existing regular file, whatever the state of the reference; when the
\* target is a regular file and the reference exists it returns true exactly
\* when the target's mtime >= the reference's.
C8_NewerOrEqual ==
    newer # <<>> =>
        /\ fs[target_fname].kind # "file"
              => (~newer[1].raised /\ newer[1].value = FALSE)
        /\ (fs[target_fname].kind = "file" /\ fs[orig_fname].kind # "none")
              => /\ ~newer[1].raised
                 /\ newer[1].value
                      <=> (fs[target_fname].mtime >= fs[orig_fname].mtime)

\* C8's boundary: a regular file and a directory with equal mtimes; the file
\* is reported newer.
C8_Witness ==
    /\ newer # <<>>
    /\ fs[target_fname].kind = "file"
    /\ fs[orig_fname].kind = "dir"
    /\ fs[target_fname].mtime = fs[orig_fname].mtime
    /\ newer[1].value

----------------------------------------------------------------------------
(* ensure_bam_sorted.                                                      *)

DefaultSpan == 50

\* Characters by code point, as Python compares strings.
CodePoints == <<"A", "B", "a", "b">>

Ord(ch) == CHOOSE i \in 1..Len(CodePoints) : CodePoints[i] = ch

\* prev.qname <= read.qname on strings.
RECURSIVE StrLeq(_, _)
StrLeq(a, b) ==
    IF a = <<>> THEN TRUE
    ELSE IF b = <<>> THEN FALSE
    ELSE IF Ord(Head(a)) < Ord(Head(b)) THEN TRUE
    ELSE IF Ord(Head(a)) > Ord(Head(b)) THEN FALSE
    ELSE StrLeq(Tail(a), Tail(b))

\* Variant of the by-name test with < for <=: equal names are out of order.
OutOfOrderByNameStrict(read, prior) ==
    ~(prior = <<>> \/ (StrLeq(prior[1].qname, read.qname)
                         /\ prior[1].qname # read.qname))

\* out_of_order of lines 60-62; prior is <<>> for None, else <<record>>.
OutOfOrderByName(read, prior) ==
    ~(prior = <<>> \/ StrLeq(prior[1].qname, read.qname))

\* Variant of the by-position test that compares positions across
\* reference sequences too.
OutOfOrderByPosIgnoringTid(read, prior) ==
    ~(prior = <<>> \/ prior[1].pos <= read.pos)

\* out_of_order of lines 65-68.
OutOfOrderByPos(read, prior) ==
    ~(prior = <<>> \/ read.tid # prior[1].tid \/ prior[1].pos <= read.pos)

OutOfOrder(byname, read, prior) ==
    IF byname THEN OutOfOrderByName(read, prior)
    ELSE OutOfOrderByPos(read, prior)

\* Variant of the slice that gives span + 1 records.
SliceHasNextOffByOne(n, sp, len) == n <= sp /\ n < len

\* islice(bam, span) has another record to give after n were taken.
SliceHasNext(n, sp, len) == n < sp /\ n < len

QNames == { <<"A">>, <<"A", "b">>, <<"B">>, <<"a">> }

Reads == [tid : {0, 1}, pos : {0, 1}, qname : {<<"A">>}]
           \cup [tid : {0}, pos : {0}, qname : QNames]

RECURSIVE SeqsUpTo(_, _)
SeqsUpTo(S, n) ==
    IF n = 0 THEN {<<>>}
    ELSE LET shorter == SeqsUpTo(S, n - 1)
         IN  shorter \cup {Append(q, x) : q \in shorter, x \in S}

InitSorted ==
    /\ reads \in SeqsUpTo(Reads, MaxReads)
    /\ by_name \in BOOLEAN
    /\ span \in 0..MaxSpan \cup {DefaultSpan}
    /\ spc = "idle"
    /\ consumed = <<>>
    /\ last_read = <<>>
    /\ sorted = <<>>
    /\ IdleFs
    /\ IdleCalls
    /\ IdleNewer
    /\ IdleReads

sortRest == <<fsVars, callVars, raceVars, newerVars, readsVars>>

\* Lines 71-72: the file is opened, last_read = None.
SortOpen ==
    /\ spc = "idle"
    /\ spc' = "loop"
    /\ last_read' = <<>>
    /\ UNCHANGED <<reads, by_name, span, consumed, sorted, sortRest>>

\* Lines 73-76: the loop takes the next record and compares it.
SortNext ==
    /\ spc = "loop"
    /\ SliceHasNext(Len(consumed), span, Len(reads))
    /\ LET read == reads[Len(consumed) + 1]
       IN  /\ consumed' = Append(consumed, read)
           /\ IF OutOfOrder(by_name, read, last_read)
              THEN /\ sorted' = <<FALSE>>
                   /\ spc' = "done"
                   /\ UNCHANGED last_read
              ELSE /\ last_read' = <<read>>
                   /\ UNCHANGED <<sorted, spc>>
    /\ UNCHANGED <<reads, by_name, span, sortRest>>

\* Line 77: the slice is exhausted.
SortEnd ==
    /\ spc = "loop"
    /\ ~SliceHasNext(Len(consumed), span, Len(reads))
    /\ sorted' = <<TRUE>>
    /\ spc' = "done"
    /\ UNCHANGED <<reads, by_name, span, consumed, last_read, sortRest>>

NextSorted == SortOpen \/ SortNext \/ SortEnd

SpecSorted == InitSorted /\ [][NextSorted]_vars

\* The sampled prefix: the first span records of the file.
Sampled == SubSeq(reads, 1, IF span < Len(reads) THEN span ELSE Len(reads))

\* a <= b lexicographically: a is a prefix of b, or at the first place they
\* differ a has the smaller character.
LexLeq(a, b) ==
    \/ (Len(a) <= Len(b) /\ a = SubSeq(b, 1, Len(a)))
    \/ \E k \in 1..Len(a) :
         /\ k <= Len(b)
         /\ SubSeq(a, 1, k - 1) = SubSeq(b, 1, k - 1)
         /\ Ord(a[k]) < Ord(b[k])

\* C5: with byQueryName false isSorted returns true iff every record of the
\* sampled prefix has another referenceId than its predecessor or a position
\* >= its predecessor's (so: true for no record, for one record, and when
\* the referenceId changes, also to a smaller one).
C5_SortedByPosition ==
    (spc = "done" /\ ~by_name) =>
        (sorted[1] <=>
            \A i \in 1..(Len(Sampled) - 1) :
                \/ Sampled[i + 1].tid # Sampled[i].tid
                \/ Sampled[i + 1].pos >= Sampled[i].pos)

\* C5's case: the referenceId drops and the position with it; still sorted.
C5_Witness ==
    /\ spc = "done"
    /\ ~by_name
    /\ Len(consumed) >= 2
    /\ \E i \in 1..(Len(consumed) - 1) :
         /\ consumed[i + 1].tid < consumed[i].tid
         /\ consumed[i + 1].pos < consumed[i].pos
    /\ sorted = <<TRUE>>

\* C6: with byQueryName true isSorted returns true iff every record of the
\* sampled prefix has a queryName >= its predecessor's, lexicographically,
\* equal names allowed (so: true for no record and for one record).
C6_SortedByName ==
    (spc = "done" /\ by_name) =>
        (sorted[1] <=>
            \A i \in 1..(Len(Sampled) - 1) :
                LexLeq(Sampled[i].qname, Sampled[i + 1].qname))

\* C6's case: a pair of reads sharing a name, then a longer name; sorted.
C6_Witness ==
    /\ spc = "done"
    /\ by_name
    /\ Len(consumed) = 3
    /\ consumed[1].qname = consumed[2].qname
    /\ consumed[2].qname # consumed[3].qname
    /\ Len(consumed[2].qname) < Len(consumed[3].qname)
    /\ sorted = <<TRUE>>

\* A pair of the consumed records is out of order under the mode's rule.
C9_BadPair(i) ==
    IF by_name
    THEN ~LexLeq(consumed[i].qname, consumed[i + 1].qname)
    ELSE /\ consumed[i + 1].tid = consumed[i].tid
         /\ consumed[i + 1].pos < consumed[i].pos

\* C9: in both modes isSorted takes records in file order, at most
\* sampleSize of them, and none after the first that is out of order with
\* its predecessor, where it returns false; so the result is decided by the
\* first sampleSize records alone.
C9_PrefixOnly ==
    /\ Len(consumed) <= span
    /\ Len(consumed) <= Len(reads)
    /\ consumed = SubSeq(reads, 1, Len(consumed))
    /\ \A i \in 1..(Len(consumed) - 1) :
         C9_BadPair(i) => /\ i = Len(consumed) - 1
                          /\ spc = "done"
                          /\ sorted = <<FALSE>>
    /\ spc = "done" =>
         /\ sorted = <<FALSE>> => (Len(consumed) >= 2
                                    /\ C9_BadPair(Len(consumed) - 1))
         /\ sorted = <<TRUE>> => consumed = Sampled

\* C9's case: the call stopped at an out-of-order pair with records of the
\* sample still unread.
C9_Witness ==
    /\ spc = "done"
    /\ sorted = <<FALSE>>
    /\ Len(consumed) = 2
    /\ Len(reads) = 3
    /\ span > 2

----------------------------------------------------------------------------
(* bam_total_reads.                                                        *)

\* The vertical tab, '\x0b'.
VT == ""

\* The characters str.split() splits at.
Whitespace == {" ", "\t", "\n", "\r", VT, "\f"}

Digits == <<"0", "1", "2", "3", "4", "5", "6", "7", "8", "9">>

IsDigit(ch) == \E i \in 1..Len(Digits) : Digits[i] = ch

DigitVal(ch) == (CHOOSE i \in 1..Len(Digits) : Digits[i] = ch) - 1

\* str.splitlines() of a byte string: pieces end at "\n", at "\r" and at
\* "\r\n" taken as one break; no empty piece after the last break.
RECURSIVE SplitLinesFrom(_, _, _)
SplitLinesFrom(s, cur, acc) ==
    IF s = <<>> THEN (IF cur = <<>> THEN acc ELSE Append(acc, cur))
    ELSE IF Head(s) = "\n" THEN SplitLinesFrom(Tail(s), <<>>, Append(acc, cur))
    ELSE IF Head(s) = "\r"
    THEN IF Tail(s) # <<>> /\ Head(Tail(s)) = "\n"
         THEN SplitLinesFrom(Tail(Tail(s)), <<>>, Append(acc, cur))
         ELSE SplitLinesFrom(Tail(s), <<>>, Append(acc, cur))
    ELSE SplitLinesFrom(Tail(s), Append(cur, Head(s)), acc)

SplitLines(s) == SplitLinesFrom(s, <<>>, <<>>)

\* str.split(): fields are the maximal runs of non-whitespace characters.
RECURSIVE SplitFrom(_, _, _)
SplitFrom(s, cur, acc) ==
    IF s = <<>> THEN (IF cur = <<>> THEN acc ELSE Append(acc, cur))
    ELSE IF Head(s) \in Whitespace
    THEN SplitFrom(Tail(s), <<>>, IF cur = <<>> THEN acc ELSE Append(acc, cur))
    ELSE SplitFrom(Tail(s), Append(cur, Head(s)), acc)

\* Variant of the split, as str.split(sep) does it: a field ends at every
\* whitespace character and empty fields are kept.
RECURSIVE SplitEachFrom(_, _, _)
SplitEachFrom(s, cur, acc) ==
    IF s = <<>> THEN Append(acc, cur)
    ELSE IF Head(s) \in Whitespace
    THEN SplitEachFrom(Tail(s), <<>>, Append(acc, cur))
    ELSE SplitEachFrom(Tail(s), Append(cur, Head(s)), acc)

SplitEach(s) == SplitEachFrom(s, <<>>, <<>>)

\* line.split()
Split(s) == SplitFrom(s, <<>>, <<>>)

\* int(x) on a field: an optional sign, then one or more decimal digits.
Unsigned(fld) ==
    IF fld # <<>> /\ Head(fld) \in {"-", "+"} THEN Tail(fld) ELSE fld

IsInt(fld) ==
    /\ Unsigned(fld) # <<>>
    /\ \A i \in 1..Len(Unsigned(fld)) : IsDigit(Unsigned(fld)[i])

RECURSIVE NatOf(_, _)
NatOf(ds, acc) ==
    IF ds = <<>> THEN acc ELSE NatOf(Tail(ds), 10 * acc + DigitVal(Head(ds)))

IntOf(fld) ==
    IF Head(fld) = "-" THEN 0 - NatOf(Unsigned(fld), 0)
    ELSE NatOf(Unsigned(fld), 0)

\* The loop of lines 19-23 over the lines left, tot_mapped_reads so far.
RECURSIVE SumLines(_, _)
SumLines(ls, tot_mapped_reads) ==
    IF ls = <<>> THEN [raised |-> "", value |-> <<tot_mapped_reads>>]
    ELSE LET flds == Split(Head(ls))
         IN  IF Len(flds) # 4 \/ ~IsInt(flds[3])
             THEN [raised |-> "ValueError", value |-> <<>>]
             ELSE SumLines(Tail(ls), tot_mapped_reads + IntOf(flds[3]))

\* bam_total_reads, given what pysam.idxstats returned: one string
\* (isstr) or a list of lines.
BamTotalReads(ret) ==
    SumLines(IF ret.isstr THEN SplitLines(ret.val) ELSE ret.val, 0)

\* What pysam.idxstats prints for one reference sequence: nf fields (four in
\* a well-formed line), the third the mapped count or, with junk, no number.
RECURSIVE NatToStr(_)
NatToStr(n) ==
    IF n < 10 THEN <<Digits[n + 1]>>
    ELSE Append(NatToStr(n \div 10), Digits[(n % 10) + 1])

IntToStr(n) == IF n < 0 THEN <<"-">> \o NatToStr(0 - n) ELSE NatToStr(n)

StatsField(d, i) ==
    IF i = 1 THEN <<"c">>
    ELSE IF i = 2 THEN <<"9">>
    ELSE IF i = 3 THEN (IF d.junk THEN <<"x">> ELSE IntToStr(d.mapped))
    ELSE <<"0">>

RECURSIVE StatsText(_, _)
StatsText(d, n) ==
    IF n = 0 THEN <<>>
    ELSE IF n = 1 THEN StatsField(d, 1)
    ELSE StatsText(d, n - 1) \o d.sep \o StatsField(d, n)

StatsLine(d) == StatsText(d, d.nf)

RECURSIVE JoinedLines(_, _)
JoinedLines(ds, eol) ==
    IF ds = <<>> THEN <<>>
    ELSE StatsLine(Head(ds)) \o eol \o JoinedLines(Tail(ds), eol)

\* What pysam.idxstats returns: one string, or a list of lines, every line
\* ended by eol.
Idxstats(ds, isstr, eol) ==
    [isstr |-> isstr,
     val |-> IF isstr THEN JoinedLines(ds, eol)
             ELSE [i \in 1..Len(ds) |-> StatsLine(ds[i]) \o eol]]

\* Whitespace between the fields of a line (none of it a line break), and
\* the line breaks.
Separators == { <<"\t">>, <<" ", " ">>, <<"\f", VT>> }

LineEnds == { <<"\n">>, <<"\r">>, <<"\r", "\n">> }

MappedCounts == {0, 7, 12}

StatsLines ==
    [nf : 0..2, mapped : {0}, junk : {FALSE}, sep : {<<"\t">>}]
    \cup [nf : 3..5, mapped : MappedCounts, junk : {FALSE}, sep : Separators]
    \cup [nf : {4}, mapped : {0}, junk : {TRUE}, sep : {<<"\t">>}]

InitReads ==
    /\ stats \in SeqsUpTo(StatsLines, MaxLines)
    /\ \E isstr \in BOOLEAN, eol \in LineEnds :
         lines = Idxstats(stats, isstr, eol)
    /\ total = <<>>
    /\ IdleFs
    /\ IdleCalls
    /\ IdleNewer
    /\ IdleSorted

\* One call of bam_total_reads.
CallBamTotalReads ==
    /\ total = <<>>
    /\ total' = <<BamTotalReads(lines)>>
    /\ UNCHANGED <<stats, lines, fsVars, callVars, raceVars, newerVars,
                   sortVars>>

NextReads == CallBamTotalReads

SpecReads == InitReads /\ [][NextReads]_vars

RECURSIVE SumMapped(_)
SumMapped(ds) ==
    IF ds = <<>> THEN 0 ELSE Head(ds).mapped + SumMapped(Tail(ds))

\* C7: totalMappedReads returns the sum of the third fields (0 for no
\* lines) when every line has exactly four fields with an integer third
\* field, and fails with the format error (ValueError), returning no
\* partial sum, when some line does not have exactly four fields.
C7_TotalMappedReads ==
    total # <<>> =>
        /\ (\A i \in 1..Len(stats) : stats[i].nf = 4 /\ ~stats[i].junk)
              => total[1] = [raised |-> "", value |-> <<SumMapped(stats)>>]
        /\ (\E i \in 1..Len(stats) : stats[i].nf # 4)
              => total[1] = [raised |-> "ValueError", value |-> <<>>]

\* C7's case: two well-formed lines, fields two spaces apart, counts 12 and
\* 7, given as one string with "\r" in its line breaks; the total is 19.
C7_Witness ==
    /\ total # <<>>
    /\ lines.isstr
    /\ \E i \in 1..Len(lines.val) : lines.val[i] = "\r"
    /\ Len(stats) = 2
    /\ \A i \in 1..2 : stats[i].nf = 4 /\ ~stats[i].junk
                          /\ stats[i].sep = <<" ", " ">>
    /\ stats[1].mapped = 12
    /\ stats[2].mapped = 7
    /\ total[1].value = <<19>>

====
